---- MODULE Spec2Model ----
(***************************************************************************)
(* The user-management command line of app/cli.py: eight typer commands,   *)
(* each of which opens one session on the database, runs one query or one  *)
(* mutation on the table "user" and prints its result.                     *)
(*                                                                         *)
(* The table is the sequence of its rows in rowid (id) order, which is the *)
(* order an unordered select returns them in.  Strings that the program    *)
(* only compares for equality (usernames, passwords) are TLA+ strings; the *)
(* emails, which find_by_email searches for substrings, are sequences of   *)
(* characters.  app/database.py and app/models.py are not part of the      *)
(* sources at hand: the session, the schema and its constraints follow     *)
(* the specification (sections 3 and 5).                                   *)
(***************************************************************************)
EXTENDS Integers, Sequences, FiniteSets, TLC

VARIABLES table, prev, last, out, openSessions, acquired

vars == <<table, prev, last, out, openSessions, acquired>>

(***************************************************************************)
(* Bounds of the model.                                                    *)
(***************************************************************************)
\* largest id the database hands out before create_user is cut off
MaxId == 4
\* list_num_users is called with limit in -1 .. MaxLimit
MaxLimit == 2
\* list_num_users is called with offset in -MaxOffset .. MaxOffset
MaxOffset == 2

(***************************************************************************)
(* Inputs of the commands.                                                 *)
(***************************************************************************)
BobEmail == <<"b","o","b","@","m","a","i","l",".","c","o","m">>

AlEmail == <<"a","l","@","m","a","i","l",".","c","o","m">>

CyEmail == <<"c","y","@","x",".","o","r","g">>

Usernames == {"bob", "al", "cy"}

Emails == {BobEmail, AlEmail, CyEmail}

Passwords == {"pw"}

Searches == {<<>>, <<"m","a","i","l">>, <<"z","z">>, BobEmail}

Limits == (-1)..MaxLimit

Offsets == (-MaxOffset)..MaxOffset

(***************************************************************************)
(* The schema, the constructor of User and the session.                    *)
(***************************************************************************)
\* User(username, email, password): the fields are stored as given; the id
\* is the one the database generates at the insert
User(id, username, email, password) ==
  [id |-> id, username |-> username, email |-> email, password |-> password]

\* the id generated for the next inserted row: one more than the largest
NextId(tbl) ==
  IF tbl = <<>> THEN 1
  ELSE (CHOOSE m \in {tbl[i].id : i \in 1..Len(tbl)} :
          \A i \in 1..Len(tbl) : tbl[i].id <= m) + 1

\* a schema whose username column lacks unique=True
UniqueEmailOnly(tbl) ==
  \A i, j \in 1..Len(tbl) : i # j => tbl[i].email # tbl[j].email

\* the uniqueness constraints on username and on email, checked at commit:
\* a commit that would break one raises IntegrityError
Unique(tbl) ==
  \A i, j \in 1..Len(tbl) :
     i # j => /\ tbl[i].username # tbl[j].username
              /\ tbl[i].email # tbl[j].email

\* drop_all() followed by create_db_and_tables(): the table exists, empty
drop_and_create == <<>>

\* entering and leaving the block "with get_session() as db"
session_enter(n) == n + 1

session_exit(n) == n - 1

\* one session acquired at the start of the command, released at its end
with_session ==
  /\ openSessions' = session_exit(session_enter(openSessions))
  /\ acquired' = 1

(***************************************************************************)
(* Helpers that stand for the Python and ORM expressions of the commands.  *)
(***************************************************************************)
\* the arguments of a command, absent ones at their neutral value
Call(cmd, username, email, password, limit, offset) ==
  [cmd |-> cmd, username |-> username, email |-> email,
   password |-> password, limit |-> limit, offset |-> offset]

\* what a command printed and how it ended
Output(status, msg, printed) ==
  [status |-> status, msg |-> msg, printed |-> printed]

\* select(User).where(User.username == username) ... .first(): the position
\* of the first matching row, 0 for None
first_by_username(tbl, username) ==
  LET S == {i \in 1..Len(tbl) : tbl[i].username = username}
  IN  IF S = {} THEN 0 ELSE CHOOSE i \in S : \A j \in S : i <= j

\* Python's "needle in haystack" on two strings
str_in(needle, haystack) ==
  \E k \in 0..(Len(haystack) - Len(needle)) :
     \A c \in 1..Len(needle) : haystack[k + c] = needle[c]

\* Python's range(a, b) as the sequence of its values
py_range(a, b) ==
  [k \in 1..(IF b > a THEN b - a ELSE 0) |-> a + k - 1]

py_min(a, b) == IF a < b THEN a ELSE b

\* whether seq[i] is defined in Python for a list of length n
py_index_ok(n, i) == (0 - n) <= i /\ i < n

\* Python's seq[i], negative indexes counting from the end
py_index(seq, i) ==
  IF i >= 0 THEN seq[i + 1] ELSE seq[Len(seq) + i + 1]

(***************************************************************************)
(* The state after construction: the database as `initialize' leaves it    *)
(* when it is first run on a new database file.                            *)
(***************************************************************************)
Bob == User(1, "bob", BobEmail, "bobpass")

NoArgs(cmd) == Call(cmd, "", <<>>, "", 0, 0)

Init ==
  /\ table = <<Bob>>
  /\ prev = <<>>
  /\ last = NoArgs("initialize")
  /\ out = Output("ok", "Database Initialized", <<>>)
  /\ openSessions = 0
  /\ acquired = 1

(***************************************************************************)
(* The commands.  `prev' is the table as the command found it, `last' the  *)
(* command and its arguments, `out' what it printed and how it ended.      *)
(***************************************************************************)
\* initialize without the drop_all / create_db_and_tables of lines 17-18
initialize_keep ==
  LET bob == User(NextId(table), "bob", BobEmail, "bobpass")
  IN  /\ prev' = table
      /\ last' = NoArgs("initialize")
      /\ IF Unique(Append(table, bob))
         THEN /\ table' = Append(table, bob)
              /\ out' = Output("ok", "Database Initialized", <<>>)
         ELSE /\ table' = table
              /\ out' = Output("IntegrityError", "", <<>>)
      /\ with_session

initialize ==
  LET bob == User(NextId(drop_and_create), "bob", BobEmail, "bobpass")
  IN  /\ prev' = table
      /\ last' = NoArgs("initialize")
      /\ table' = Append(drop_and_create, bob)
      /\ out' = Output("ok", "Database Initialized", <<>>)
      /\ with_session

get_user(username) ==
  LET user == first_by_username(table, username)
  IN  /\ prev' = table
      /\ last' = Call("get_user", username, <<>>, "", 0, 0)
      /\ table' = table
      /\ out' = IF user = 0
                THEN Output("ok", "not found!", <<>>)
                ELSE Output("ok", "", <<table[user]>>)
      /\ with_session

get_all_users ==
  LET all_users == table
  IN  /\ prev' = table
      /\ last' = NoArgs("get_all_users")
      /\ table' = table
      /\ out' = IF all_users = <<>>
                THEN Output("ok", "No users found", <<>>)
                ELSE Output("ok", "", all_users)
      /\ with_session

\* change_email whose select lacks the where clause of line 61
change_email_any_user(username, new_email) ==
  LET user == IF table = <<>> THEN 0 ELSE 1
      changed == [table EXCEPT ![user].email = new_email]
  IN  /\ prev' = table
      /\ last' = Call("change_email", username, new_email, "", 0, 0)
      /\ IF user = 0
         THEN /\ table' = table
              /\ out' = Output("ok", "not found! Unable to update email.", <<>>)
         ELSE IF Unique(changed)
         THEN /\ table' = changed
              /\ out' = Output("ok", "Updated email", <<>>)
         ELSE /\ table' = table
              /\ out' = Output("IntegrityError", "", <<>>)
      /\ with_session

\* change_email that assigns a second field next to line 65
change_email_sets_password(username, new_email) ==
  LET user == first_by_username(table, username)
      changed == [table EXCEPT ![user].email = new_email,
                               ![user].password = "pw"]
  IN  /\ prev' = table
      /\ last' = Call("change_email", username, new_email, "", 0, 0)
      /\ IF user = 0
         THEN /\ table' = table
              /\ out' = Output("ok", "not found! Unable to update email.", <<>>)
         ELSE IF Unique(changed)
         THEN /\ table' = changed
              /\ out' = Output("ok", "Updated email", <<>>)
         ELSE /\ table' = table
              /\ out' = Output("IntegrityError", "", <<>>)
      /\ with_session

\* change_email that closes its session by hand on the normal path only
change_email_leaks_session(username, new_email) ==
  LET user == first_by_username(table, username)
      changed == [table EXCEPT ![user].email = new_email]
  IN  /\ prev' = table
      /\ last' = Call("change_email", username, new_email, "", 0, 0)
      /\ acquired' = 1
      /\ IF user = 0
         THEN /\ table' = table
              /\ out' = Output("ok", "not found! Unable to update email.", <<>>)
              /\ openSessions' = session_enter(openSessions)
         ELSE IF Unique(changed)
         THEN /\ table' = changed
              /\ out' = Output("ok", "Updated email", <<>>)
              /\ openSessions' = session_exit(session_enter(openSessions))
         ELSE /\ table' = table
              /\ out' = Output("IntegrityError", "", <<>>)
              /\ openSessions' = session_enter(openSessions)

\* the commit of line 67 is outside any try: an IntegrityError leaves the
\* command as an unhandled exception; the session is closed on the way out
\* and the pending change is discarded with it
change_email(username, new_email) ==
  LET user == first_by_username(table, username)
      changed == [table EXCEPT ![user].email = new_email]
  IN  /\ prev' = table
      /\ last' = Call("change_email", username, new_email, "", 0, 0)
      /\ IF user = 0
         THEN /\ table' = table
              /\ out' = Output("ok", "not found! Unable to update email.", <<>>)
         ELSE IF Unique(changed)
         THEN /\ table' = changed
              /\ out' = Output("ok", "Updated email", <<>>)
         ELSE /\ table' = table
              /\ out' = Output("IntegrityError", "", <<>>)
      /\ with_session

\* create_user that updates the clashing record where line 86 rolls back
create_user_overwrites(username, email, password) ==
  LET newuser == User(NextId(table), username, email, password)
      added == Append(table, newuser)
      clash == first_by_username(table, username)
  IN  /\ prev' = table
      /\ last' = Call("create_user", username, email, password, 0, 0)
      /\ IF Unique(added)
         THEN /\ NextId(table) <= MaxId
              /\ table' = added
              /\ out' = Output("ok", "", <<newuser>>)
         ELSE /\ table' = IF clash = 0 THEN table
                          ELSE [table EXCEPT ![clash].password = password]
              /\ out' = Output("ok", "Username or email already taken!", <<>>)
      /\ with_session

create_user(username, email, password) ==
  LET newuser == User(NextId(table), username, email, password)
      added == Append(table, newuser)
  IN  /\ prev' = table
      /\ last' = Call("create_user", username, email, password, 0, 0)
      /\ IF Unique(added)
         THEN /\ NextId(table) <= MaxId
              /\ table' = added
              /\ out' = Output("ok", "", <<newuser>>)
         ELSE /\ table' = table
              /\ out' = Output("ok", "Username or email already taken!", <<>>)
      /\ with_session

\* delete_user without the delete and commit of lines 101-102
delete_user_no_commit(username) ==
  LET user == first_by_username(table, username)
  IN  /\ prev' = table
      /\ last' = Call("delete_user", username, <<>>, "", 0, 0)
      /\ table' = table
      /\ out' = IF user = 0
                THEN Output("ok", "not found! Unable to delete user.", <<>>)
                ELSE Output("ok", "deleted", <<>>)
      /\ with_session

delete_user(username) ==
  LET user == first_by_username(table, username)
  IN  /\ prev' = table
      /\ last' = Call("delete_user", username, <<>>, "", 0, 0)
      /\ IF user = 0
         THEN /\ table' = table
              /\ out' = Output("ok", "not found! Unable to delete user.", <<>>)
         ELSE /\ table' = SubSeq(table, 1, user - 1)
                            \o SubSeq(table, user + 1, Len(table))
              /\ out' = Output("ok", "deleted", <<>>)
      /\ with_session

\* the loop of lines 115-117 from row i on: the rows it prints
RECURSIVE find_loop(_, _, _)
find_loop(all_users, email, i) ==
  IF i > Len(all_users) THEN <<>>
  ELSE (IF str_in(email, all_users[i].email) THEN <<all_users[i]>> ELSE <<>>)
       \o find_loop(all_users, email, i + 1)

\* find_by_email with == in place of the `in' of line 116
find_by_email_exact(email) ==
  LET all_users == table
  IN  /\ prev' = table
      /\ last' = Call("find_by_email", "", email, "", 0, 0)
      /\ table' = table
      /\ out' = IF all_users = <<>>
                THEN Output("ok", "No users found", <<>>)
                ELSE Output("ok", "",
                            SelectSeq(all_users, LAMBDA u : u.email = email))
      /\ with_session

find_by_email(email) ==
  LET all_users == table
  IN  /\ prev' = table
      /\ last' = Call("find_by_email", "", email, "", 0, 0)
      /\ table' = table
      /\ out' = IF all_users = <<>>
                THEN Output("ok", "No users found", <<>>)
                ELSE Output("ok", "", find_loop(all_users, email, 1))
      /\ with_session

\* the loop of lines 132-133 from the k-th value of the range on: the rows
\* it prints, and whether all_users[i] raised IndexError on the way
RECURSIVE list_loop(_, _, _)
list_loop(all_users, idxs, k) ==
  IF k > Len(idxs) THEN [printed |-> <<>>, status |-> "ok"]
  ELSE IF ~ py_index_ok(Len(all_users), idxs[k])
  THEN [printed |-> <<>>, status |-> "IndexError"]
  ELSE LET rest == list_loop(all_users, idxs, k + 1)
       IN  [printed |-> <<py_index(all_users, idxs[k])>> \o rest.printed,
            status |-> rest.status]

list_num_users(limit, offset) ==
  LET all_users == table
      idxs == py_range(offset, py_min(offset + limit, Len(all_users)))
      run == list_loop(all_users, idxs, 1)
  IN  /\ prev' = table
      /\ last' = Call("list_num_users", "", <<>>, "", limit, offset)
      /\ table' = table
      /\ out' = IF all_users = <<>>
                THEN Output("ok", "No users found", <<>>)
                ELSE Output(run.status, "", run.printed)
      /\ with_session

Next ==
  \/ initialize
  \/ \E username \in Usernames : get_user(username)
  \/ get_all_users
  \/ \E username \in Usernames, new_email \in Emails :
        change_email(username, new_email)
  \/ \E username \in Usernames, email \in Emails, password \in Passwords :
        create_user(username, email, password)
  \/ \E username \in Usernames : delete_user(username)
  \/ \E email \in Searches : find_by_email(email)
  \/ \E limit \in Limits, offset \in Offsets : list_num_users(limit, offset)

Spec == Init /\ [][Next]_vars

(***************************************************************************)
(* The properties.  Each is stated on the state a command leaves: `prev'   *)
(* is the table the command found, `table' the table it left.              *)
(***************************************************************************)

\* C1: after any sequence of the eight commands, no two distinct records of
\* the table share a username and no two distinct records share an email.
C1_UniqueUsernameAndEmail ==
  \A i, j \in 1..Len(table) :
     i # j => /\ table[i].username # table[j].username
              /\ table[i].email # table[j].email

\* a second record is in the table and a create_user with a taken username
\* has just been turned down
C1_Witness ==
  /\ last.cmd = "create_user"
  /\ Len(table) >= 2
  /\ out.msg = "Username or email already taken!"
  /\ \E i \in 1..Len(prev) : prev[i].username = last.username

\* C2: create_user with a username or an email that some record already has
\* leaves the table as it was and prints the conflict message; with neither
\* taken it appends exactly one record with the three given field values
\* and leaves every other record as it was.
C2_CreateUserContract ==
  last.cmd = "create_user" =>
    IF \E i \in 1..Len(prev) : \/ prev[i].username = last.username
                               \/ prev[i].email = last.email
    THEN /\ table = prev
         /\ out.msg = "Username or email already taken!"
         /\ out.printed = <<>>
    ELSE /\ Len(table) = Len(prev) + 1
         /\ \A i \in 1..Len(prev) : table[i] = prev[i]
         /\ table[Len(table)].username = last.username
         /\ table[Len(table)].email = last.email
         /\ table[Len(table)].password = last.password
         /\ out.msg = ""

\* create_user was turned down for its email alone: no record had the
\* username, another user's record had the email
C2_Witness ==
  /\ last.cmd = "create_user"
  /\ out.msg = "Username or email already taken!"
  /\ \A i \in 1..Len(prev) : prev[i].username # last.username
  /\ \E i \in 1..Len(prev) : prev[i].email = last.email

\* C3: every uniqueness violation raised at commit, in create_user (taken
\* username or email) and in change_email (new_email held by another user),
\* is caught: a message is printed, the table is unchanged and the command
\* does not end in an unhandled error.
C3_EveryViolationCaught ==
  LET create_violates ==
        /\ last.cmd = "create_user"
        /\ \E i \in 1..Len(prev) : \/ prev[i].username = last.username
                                   \/ prev[i].email = last.email
      change_violates ==
        /\ last.cmd = "change_email"
        /\ \E i, j \in 1..Len(prev) : /\ prev[i].username = last.username
                                      /\ prev[j].username # last.username
                                      /\ prev[j].email = last.email
  IN  (create_violates \/ change_violates) =>
         /\ out.status = "ok"
         /\ out.msg # ""
         /\ table = prev

\* C4: initialize succeeds from any table, and right after it the table
\* holds exactly one record, username "bob" with email "bob@mail.com";
\* every record that was there before is gone.
C4_InitializeResets ==
  /\ ENABLED initialize
  /\ last.cmd = "initialize" =>
       /\ out.status = "ok"
       /\ out.msg = "Database Initialized"
       /\ Len(table) = 1
       /\ table[1].username = "bob"
       /\ table[1].email = BobEmail

\* initialize ran on a table of several records, one of them a "bob" whose
\* email had been changed
C4_Witness ==
  /\ last.cmd = "initialize"
  /\ Len(prev) >= 2
  /\ \E i \in 1..Len(prev) : prev[i].username = "bob" /\ prev[i].email # BobEmail
  /\ Len(table) = 1

\* C5: delete_user on an existing username removes exactly that record and
\* leaves the others as they were; on an absent username it prints "not
\* found" and leaves the table as it was; and a delete_user that directly
\* follows a delete_user of the same username is such a "not found".
C5_DeleteUserContract ==
  /\ [](last.cmd = "delete_user" =>
          IF \E i \in 1..Len(prev) : prev[i].username = last.username
          THEN /\ out.msg = "deleted"
               /\ Len(table) = Len(prev) - 1
               /\ table = SelectSeq(prev, LAMBDA r : r.username # last.username)
          ELSE /\ out.msg = "not found! Unable to delete user."
               /\ table = prev)
  /\ [][(/\ last.cmd = "delete_user"
         /\ last'.cmd = "delete_user"
         /\ last'.username = last.username)
        => (/\ out'.msg = "not found! Unable to delete user."
            /\ table' = table)]_vars

\* a record was deleted from a table of several
C5_Witness ==
  /\ last.cmd = "delete_user"
  /\ out.msg = "deleted"
  /\ Len(prev) >= 2
  /\ Len(table) = Len(prev) - 1

\* C6: for every limit, offset and table, list_num_users ends normally and
\* prints exactly the records at the 0-indexed positions p with
\* offset <= p < min(offset + limit, length), in order: no record at a
\* position outside [offset, offset + limit) is ever printed.  (Which
\* message goes with an empty slice is left aside here.)
C6_ListNumUsersSlice ==
  last.cmd = "list_num_users" =>
    LET n == Len(prev)
        hi == IF last.offset + last.limit < n THEN last.offset + last.limit ELSE n
        P == {p \in 0..(n - 1) : last.offset <= p /\ p < hi}
        lo == IF last.offset < 0 THEN 0 ELSE last.offset
    IN  /\ out.status = "ok"
        /\ Len(out.printed) = Cardinality(P)
        /\ \A k \in 1..Len(out.printed) : out.printed[k] = prev[lo + k]

\* C7 as stated: find_by_email prints exactly the users whose email contains
\* the search string, each once, and prints "No users found" whenever there
\* is none, also when the table is not empty.
C7_FindByEmailAsStated ==
  last.cmd = "find_by_email" =>
    LET s == last.email
        has(e) == \E i \in 1..(Len(e) + 1) :
                    /\ i + Len(s) - 1 <= Len(e)
                    /\ SubSeq(e, i, i + Len(s) - 1) = s
        matches == SelectSeq(prev, LAMBDA u : has(u.email))
    IN  /\ out.printed = matches
        /\ (matches = <<>>) <=> (out.msg = "No users found")

\* C7, amended: find_by_email prints exactly the users whose email contains
\* the search string, each once and in table order; it prints "No users
\* found" exactly when the table is empty, and prints nothing at all when
\* the table is not empty and no email matches.
C7_FindByEmail ==
  last.cmd = "find_by_email" =>
    LET s == last.email
        has(e) == \E i \in 1..(Len(e) + 1) :
                    /\ i + Len(s) - 1 <= Len(e)
                    /\ SubSeq(e, i, i + Len(s) - 1) = s
        matches == SelectSeq(prev, LAMBDA u : has(u.email))
    IN  /\ out.status = "ok"
        /\ out.printed = matches
        /\ (prev = <<>>) <=> (out.msg = "No users found")
        /\ (prev # <<>>) => (out.msg = "")

\* a search that some of the emails match and some do not
C7_Witness ==
  /\ last.cmd = "find_by_email"
  /\ Len(last.email) > 0
  /\ Len(last.email) < Len(BobEmail)
  /\ Len(out.printed) >= 1
  /\ Len(out.printed) < Len(prev)

\* C8: change_email on a username that no record has changes nothing: the
\* table is as it was and the outcome is the "not found" message.
C8_ChangeEmailNotFound ==
  (/\ last.cmd = "change_email"
   /\ \A i \in 1..Len(prev) : prev[i].username # last.username)
  => /\ table = prev
     /\ out.status = "ok"
     /\ out.msg = "not found! Unable to update email."

\* change_email named an absent user, on a table with records, with an
\* email that no record held
C8_Witness ==
  /\ last.cmd = "change_email"
  /\ Len(prev) >= 1
  /\ \A i \in 1..Len(prev) : /\ prev[i].username # last.username
                             /\ prev[i].email # last.email
  /\ out.msg = "not found! Unable to update email."

C10_Frame ==
  /\ last.cmd \in {"get_user", "get_all_users", "find_by_email", "list_num_users"}
       => table = prev
  /\ last.cmd = "change_email" =>
       /\ Len(table) = Len(prev)
       /\ \A i \in 1..Len(prev) :
            /\ table[i].id = prev[i].id
            /\ table[i].username = prev[i].username
            /\ table[i].password = prev[i].password
            /\ prev[i].username # last.username => table[i].email = prev[i].email
  /\ last.cmd \in {"create_user", "delete_user"} =>
       \A i \in 1..Len(table) :
          (\E j \in 1..Len(prev) : prev[j].id = table[i].id)
             => \E j \in 1..Len(prev) : prev[j] = table[i]

\* change_email changed the email of one record of several
C10_Witness ==
  /\ last.cmd = "change_email"
  /\ Len(table) >= 2
  /\ table # prev
  /\ out.msg = "Updated email"

====
